---- MODULE Spec2Model ----
(***************************************************************************)
(* A model of convert.py, the Jekyll -> Zola post converter.               *)
(*                                                                         *)
(* Python strings are sequences of atoms.  An atom is one character        *)
(* ("[", ",", "2", "\n", ...) or an indivisible word ("title", "Alice",    *)
(* ".md") that holds none of the characters the program inspects.  A line  *)
(* of an input file is one atom, terminator included.  What the YAML       *)
(* library makes of a metadata line is tabulated in YamlKey / YamlVal.     *)
(***************************************************************************)
EXTENDS Integers, Sequences, FiniteSets, TLC

\* ------------------------------------------------------------------ bounds
\* Longest input file of the reader sweep, in lines.
MaxLines == 4
\* Most directory entries of one walk.
MaxFiles == 3

\* ------------------------------------------------------------- text atoms
Q == "\""
NL == "\n"
SP == " "
Digits == {"0", "1", "2", "3", "4", "5", "6", "7", "8", "9"}
Whitespace == {SP, NL}

RECURSIVE Concat(_)
\* ''.join(parts) for a sequence of strings.
Concat(parts) ==
    IF parts = <<>> THEN <<>> ELSE Head(parts) \o Concat(Tail(parts))

RECURSIVE TrimL(_)
TrimL(s) ==
    IF s # <<>> /\ Head(s) \in Whitespace THEN TrimL(Tail(s)) ELSE s

RECURSIVE TrimR(_)
TrimR(s) ==
    IF s # <<>> /\ s[Len(s)] \in Whitespace
    THEN TrimR(SubSeq(s, 1, Len(s) - 1))
    ELSE s

\* str.strip() on a string of atoms.
StripText(s) == TrimR(TrimL(s))

\* ------------------------------------------------------------ Python values
\* A value is its type t, its strings v (the one string of a str, the elements
\* of a list) and, for a date, its year, month and day d.
None == [t |-> "none", v |-> <<>>, d |-> <<>>]
Str(s) == [t |-> "str", v |-> <<s>>, d |-> <<>>]
List(xs) == [t |-> "list", v |-> xs, d |-> <<>>]
DateObj(y, m, d) == [t |-> "date", v |-> <<>>, d |-> <<y, m, d>>]
\* A dict, as the function from its keys to its values.
Map(f) == [t |-> "map", m |-> f]

\* Python truth value: None, "", [] and {} are false.
Truthy(x) ==
    CASE x.t = "none" -> FALSE
      [] x.t = "str" -> x.v[1] # <<>>
      [] x.t = "list" -> x.v # <<>>
      [] x.t = "map" -> DOMAIN x.m # {}
      [] OTHER -> TRUE

\* ------------------------------------------------- yaml.safe_load, tabulated
\* Strings the input vocabulary uses.
TitleA == <<"a">>
TitleBracket == <<"[", "a", ",", "]">>
Date20200101 == <<"2", "0", "2", "0", "-", "0", "1", "-", "0", "1">>
Date202011 == <<"2", "0", "2", "0", "-", "1", "-", "1">>
Date20200230 == <<"2", "0", "2", "0", "-", "0", "2", "-", "3", "0">>

\* Metadata lines that are one `key: value` entry of a YAML block mapping.
EntryLines ==
    { "title: a\n", "title: '[a,]'\n", "layout: post\n",
      "date: '2020-01-01'\n", "date: '2020-1-1'\n", "date: '2020-02-30'\n",
      "date: 2020-01-01\n", "date: 'soon'\n", "subtitle: s\n",
      "author: Alice\n", "author: [Alice]\n", "author: [Alice, Bob]\n",
      "author: []\n", "author: ''\n",
      "tags: [solo]\n", "tags: [a, b]\n", "tags: []\n", "tags: ['[a,]']\n",
      "tags: ['a]']\n",
      "header-img: img.png\n", "cover: old.png\n", "series: intro\n" }
\* Lines the YAML scanner rejects wherever they stand.
SyntaxErrorLines == { "bad: [\n" }
\* Lines that are a plain scalar (prose) when read as YAML.
ScalarLines == { "hello\n", "world\n", "----\n" }
BlankLines == { "\n" }

YamlKey(line) ==
    CASE line \in {"title: a\n", "title: '[a,]'\n"} -> "title"
      [] line = "layout: post\n" -> "layout"
      [] line \in {"date: '2020-01-01'\n", "date: '2020-1-1'\n",
                   "date: '2020-02-30'\n", "date: 2020-01-01\n",
                   "date: 'soon'\n"} -> "date"
      [] line = "subtitle: s\n" -> "subtitle"
      [] line \in {"author: Alice\n", "author: [Alice]\n",
                   "author: [Alice, Bob]\n", "author: []\n",
                   "author: ''\n"} -> "author"
      [] line \in {"tags: [solo]\n", "tags: [a, b]\n", "tags: []\n",
                   "tags: ['[a,]']\n", "tags: ['a]']\n"} -> "tags"
      [] line = "header-img: img.png\n" -> "header-img"
      [] line = "cover: old.png\n" -> "cover"
      [] line = "series: intro\n" -> "series"
      [] OTHER -> ""

YamlVal(line) ==
    CASE line = "title: a\n" -> Str(TitleA)
      [] line = "title: '[a,]'\n" -> Str(TitleBracket)
      [] line = "layout: post\n" -> Str(<<"post">>)
      [] line = "date: '2020-01-01'\n" -> Str(Date20200101)
      [] line = "date: '2020-1-1'\n" -> Str(Date202011)
      [] line = "date: '2020-02-30'\n" -> Str(Date20200230)
      [] line = "date: 2020-01-01\n" -> DateObj(2020, 1, 1)
      [] line = "date: 'soon'\n" -> Str(<<"soon">>)
      [] line = "subtitle: s\n" -> Str(<<"s">>)
      [] line = "author: Alice\n" -> Str(<<"Alice">>)
      [] line = "author: [Alice]\n" -> List(<< <<"Alice">> >>)
      [] line = "author: [Alice, Bob]\n" -> List(<< <<"Alice">>, <<"Bob">> >>)
      [] line = "author: []\n" -> List(<<>>)
      [] line = "author: ''\n" -> Str(<<>>)
      [] line = "tags: [solo]\n" -> List(<< <<"solo">> >>)
      [] line = "tags: [a, b]\n" -> List(<< <<"a">>, <<"b">> >>)
      [] line = "tags: []\n" -> List(<<>>)
      [] line = "tags: ['[a,]']\n" -> List(<< TitleBracket >>)
      [] line = "tags: ['a]']\n" -> List(<< <<"a", "]">> >>)
      [] line = "header-img: img.png\n" -> Str(<<"img.png">>)
      [] line = "cover: old.png\n" -> Str(<<"old.png">>)
      [] line = "series: intro\n" -> Str(<<"intro">>)
      [] OTHER -> None

\* dict[key] = val
DictSet(d, key, val) ==
    [k \in DOMAIN d \cup {key} |-> IF k = key THEN val ELSE d[k]]

\* The empty dict.
EmptyDict == [k \in {} |-> None]

RECURSIVE LoadMapping(_, _)
\* The mapping of the entry lines, a later duplicate key replacing an earlier.
LoadMapping(lines, acc) ==
    IF lines = <<>> THEN acc
    ELSE LoadMapping(Tail(lines),
            IF Head(lines) \in EntryLines
            THEN DictSet(acc, YamlKey(Head(lines)), YamlVal(Head(lines)))
            ELSE acc)

HasLine(lines, S) == \E i \in 1..Len(lines) : lines[i] \in S

\* yaml.safe_load(''.join(raw_front)) raises a YAMLError: a line the scanner
\* rejects, or prose mixed into a block mapping.
safe_load_raises(lines) ==
    \/ HasLine(lines, SyntaxErrorLines)
    \/ HasLine(lines, EntryLines) /\ HasLine(lines, ScalarLines)

\* yaml.safe_load(''.join(raw_front)) when it returns: None for no document,
\* a dict for a block mapping, a str for prose.
safe_load(lines) ==
    IF HasLine(lines, EntryLines) THEN Map(LoadMapping(lines, EmptyDict))
    ELSE IF HasLine(lines, ScalarLines) THEN Str(<<"prose">>)
    ELSE None

\* --------------------------------------------------------------- JekyllFront
Positional == {"title", "date", "subtitle", "author", "tags"}

\* kwargs.get(k): the keyword argument, or the parameter's default None.
Arg(front, k) == IF k \in DOMAIN front THEN front[k] ELSE None

Restrict(d, keys) == [k \in keys |-> d[k]]

\* A variant of JekyllFrontRaises whose del extra['layout'] tolerates a missing
\* key.
JekyllFrontRaisesLenient(front) ==
    IF front.t # "map" \/ "title" \notin DOMAIN front.m THEN "TypeError"
    ELSE ""

\* JekyllFront(**front) raises: "TypeError" when front is no mapping or has no
\* title (the required parameter), "KeyError" from del extra['layout'].
JekyllFrontRaises(front) ==
    IF front.t # "map" \/ "title" \notin DOMAIN front.m THEN "TypeError"
    ELSE IF "layout" \notin DOMAIN front.m THEN "KeyError"
    ELSE ""

\* A variant of JekyllExtra that keeps the layout key.
JekyllExtraKeepsLayout(kw) ==
    LET extra == Restrict(kw, DOMAIN kw \ Positional)
    IN  IF "header-img" \in DOMAIN extra
        THEN DictSet(Restrict(extra, DOMAIN extra \ {"header-img"}),
                     "cover", extra["header-img"])
        ELSE extra

\* **extra after del extra['layout'] and the header-img -> cover rename.
JekyllExtra(kw) ==
    LET extra == Restrict(kw, DOMAIN kw \ Positional)
        dropped == Restrict(extra, DOMAIN extra \ {"layout"})
    IN  IF "header-img" \in DOMAIN dropped
        THEN DictSet(Restrict(dropped, DOMAIN dropped \ {"header-img"}),
                     "cover", dropped["header-img"])
        ELSE dropped

\* JekyllFront.__init__
JekyllFront(kw) ==
    [ title |-> kw["title"],
      date |-> Arg(kw, "date"),
      subtitle |-> Arg(kw, "subtitle"),
      author |-> Arg(kw, "author"),
      tags |-> Arg(kw, "tags"),
      extra |-> JekyllExtra(kw) ]

\* ------------------------------------------------------ JekyllDoc.extract_date
\* r'\d{4}-\d{2}-\d{2}' matches at position i of path.
DateAt(path, i) ==
    /\ i + 9 <= Len(path)
    /\ \A k \in {0, 1, 2, 3, 5, 6, 8, 9} : path[i + k] \in Digits
    /\ path[i + 4] = "-"
    /\ path[i + 7] = "-"

\* A variant of DateSearch that takes the rightmost match.
DateSearchLast(path) ==
    IF \E i \in 1..Len(path) : DateAt(path, i)
    THEN CHOOSE i \in 1..Len(path) :
            DateAt(path, i) /\ \A j \in (i + 1)..Len(path) : ~DateAt(path, j)
    ELSE 0

\* re.search: the start of the leftmost match, 0 for no match.
DateSearch(path) ==
    IF \E i \in 1..Len(path) : DateAt(path, i)
    THEN CHOOSE i \in 1..Len(path) :
            DateAt(path, i) /\ \A j \in 1..(i - 1) : ~DateAt(path, j)
    ELSE 0

\* The front matter after JekyllDoc.__init__ ran extract_date(path).
extract_date(jf, path) ==
    LET i == DateSearch(path)
    IN  IF i > 0 THEN [jf EXCEPT !.date = Str(SubSeq(path, i, i + 9))] ELSE jf

\* ------------------------------------------- datetime.strptime and isoformat
DigitVal(c) ==
    CASE c = "0" -> 0 [] c = "1" -> 1 [] c = "2" -> 2 [] c = "3" -> 3
      [] c = "4" -> 4 [] c = "5" -> 5 [] c = "6" -> 6 [] c = "7" -> 7
      [] c = "8" -> 8 [] c = "9" -> 9

DigitChar(n) ==
    CASE n = 0 -> "0" [] n = 1 -> "1" [] n = 2 -> "2" [] n = 3 -> "3"
      [] n = 4 -> "4" [] n = 5 -> "5" [] n = 6 -> "6" [] n = 7 -> "7"
      [] n = 8 -> "8" [] n = 9 -> "9"

RECURSIVE Number(_)
\* int(s) for a string of digits.
Number(s) ==
    IF s = <<>> THEN 0
    ELSE 10 * Number(SubSeq(s, 1, Len(s) - 1)) + DigitVal(s[Len(s)])

\* %m of the format: 1[0-2] | 0[1-9] | [1-9]
MonthField(f) ==
    \/ Len(f) = 2 /\ f[1] = "1" /\ f[2] \in {"0", "1", "2"}
    \/ Len(f) = 2 /\ f[1] = "0" /\ f[2] \in Digits \ {"0"}
    \/ Len(f) = 1 /\ f[1] \in Digits \ {"0"}

\* %d of the format: 3[01] | [12]\d | 0[1-9] | [1-9] | ' '[1-9]
DayField(f) ==
    \/ Len(f) = 2 /\ f[1] = "3" /\ f[2] \in {"0", "1"}
    \/ Len(f) = 2 /\ f[1] \in {"1", "2"} /\ f[2] \in Digits
    \/ Len(f) = 2 /\ f[1] \in {"0", SP} /\ f[2] \in Digits \ {"0"}
    \/ Len(f) = 1 /\ f[1] \in Digits \ {"0"}

\* The length of the month field with which s matches '%Y-%m-%d' in full,
\* 0 when it does not match.
FormatMatch(s) ==
    IF /\ Len(s) >= 8
       /\ \A k \in 1..4 : s[k] \in Digits
       /\ s[5] = "-"
       /\ \E ml \in {1, 2} :
            /\ 6 + ml < Len(s)
            /\ s[6 + ml] = "-"
            /\ MonthField(SubSeq(s, 6, 5 + ml))
            /\ DayField(SubSeq(s, 7 + ml, Len(s)))
    THEN CHOOSE ml \in {1, 2} :
            /\ 6 + ml < Len(s)
            /\ s[6 + ml] = "-"
            /\ MonthField(SubSeq(s, 6, 5 + ml))
            /\ DayField(SubSeq(s, 7 + ml, Len(s)))
    ELSE 0

IsLeap(y) == y % 4 = 0 /\ (y % 100 # 0 \/ y % 400 = 0)

DaysIn(y, m) ==
    CASE m = 2 -> IF IsLeap(y) THEN 29 ELSE 28
      [] m \in {4, 6, 9, 11} -> 30
      [] OTHER -> 31

\* The fields strptime reads once the format matched.
ParsedDate(s) ==
    LET ml == FormatMatch(s)
    IN  DateObj(Number(SubSeq(s, 1, 4)),
                Number(SubSeq(s, 6, 5 + ml)),
                Number(TrimL(SubSeq(s, 7 + ml, Len(s)))))

\* datetime.strptime(x, '%Y-%m-%d') raises: "TypeError" when x is no str,
\* "ValueError" when x does not match or names no calendar day.
strptime_raises(x) ==
    IF x.t # "str" THEN "TypeError"
    ELSE IF FormatMatch(x.v[1]) = 0 THEN "ValueError"
    ELSE LET d == ParsedDate(x.v[1]).d
         IN  IF d[1] < 1 \/ d[3] > DaysIn(d[1], d[2]) THEN "ValueError" ELSE ""

\* datetime.strptime(x, '%Y-%m-%d').date()
strptime(x) == ParsedDate(x.v[1])

RECURSIVE Pad(_, _)
\* '%0wd' % n
Pad(n, w) ==
    IF w = 0 THEN <<>> ELSE Pad(n \div 10, w - 1) \o <<DigitChar(n % 10)>>

\* date.isoformat()
isoformat(d) ==
    Pad(d.d[1], 4) \o <<"-">> \o Pad(d.d[2], 2) \o <<"-">> \o Pad(d.d[3], 2)

\* ---------------------------------------------------- JekyllFront.to_zola_front
\* to_zola_front raises what strptime raises, on a date that is set.
to_zola_front_raises(jf) ==
    IF Truthy(jf.date) THEN strptime_raises(jf.date) ELSE ""

\* A variant of Taxonomies without the truthiness tests.
TaxonomiesUnguarded(jf) ==
    DictSet(DictSet(EmptyDict, "tags", jf.tags), "author",
            IF jf.author.t = "str" THEN List(<<jf.author.v[1]>>)
            ELSE jf.author)

\* The taxonomies dict of to_zola_front.
Taxonomies(jf) ==
    LET withTags ==
            IF Truthy(jf.tags) THEN DictSet(EmptyDict, "tags", jf.tags)
            ELSE EmptyDict
    IN  IF Truthy(jf.author)
        THEN DictSet(withTags, "author",
                IF jf.author.t = "list" THEN jf.author
                ELSE List(<<jf.author.v[1]>>))
        ELSE withTags

\* The ZolaFront that to_zola_front builds.
to_zola_front(jf) ==
    [ title |-> jf.title,
      date |-> IF Truthy(jf.date) THEN strptime(jf.date) ELSE None,
      description |-> jf.subtitle,
      author |-> jf.author,
      extra |-> jf.extra,
      taxonomies |-> Taxonomies(jf) ]

\* ------------------------------------------------------------------ toml.dumps
\* A str as a TOML basic string (the vocabulary has no character to escape).
dump_str(s) == <<Q>> \o s \o <<Q>>

RECURSIVE dump_items(_)
dump_items(xs) ==
    IF xs = <<>> THEN <<>>
    ELSE <<SP>> \o dump_str(Head(xs)) \o <<",">> \o dump_items(Tail(xs))

\* The encoder's list layout: [ "a", "b",]
dump_list(xs) == <<"[">> \o dump_items(xs) \o <<"]">>

dump_value(x) == IF x.t = "list" THEN dump_list(x.v) ELSE dump_str(x.v[1])

\* One `key = value` line; a None value is left out.
dump_pair(key, x) ==
    IF x.t = "none" THEN <<>>
    ELSE <<key, SP, "=", SP>> \o dump_value(x) \o <<NL>>

\* The order in which a dict's keys are written (dict order is not modelled:
\* the keys of one table are written in this fixed order).
KeyOrder == <<"tags", "author", "series", "cover", "header-img", "layout">>

RECURSIVE dump_keys(_, _)
dump_keys(d, keys) ==
    IF keys = <<>> THEN <<>>
    ELSE (IF Head(keys) \in DOMAIN d THEN dump_pair(Head(keys), d[Head(keys)])
          ELSE <<>>) \o dump_keys(d, Tail(keys))

\* One [section] table, a blank line before it.
dump_section(name, d) ==
    <<NL, "[", name, "]", NL>> \o dump_keys(d, KeyOrder)

\* toml.dumps(data) for the data dict of to_toml: the three top-level keys,
\* then the sub-tables that were put in.
dumps(data) ==
    dump_pair("title", data.title)
    \o dump_pair("date", data.date)
    \o dump_pair("description", data.description)
    \o (IF "taxonomies" \in DOMAIN data
        THEN dump_section("taxonomies", data.taxonomies) ELSE <<>>)
    \o (IF "extra" \in DOMAIN data
        THEN dump_section("extra", data.extra) ELSE <<>>)

\* -------------------------------------------------------------------- re.sub
\* The first "]" after position i, 0 when there is none.
CloseOf(s, i) ==
    IF \E e \in (i + 1)..Len(s) : s[e] = "]"
    THEN CHOOSE e \in (i + 1)..Len(s) :
            s[e] = "]" /\ \A k \in (i + 1)..(e - 1) : s[k] # "]"
    ELSE 0

\* What stands between the "[" at i and the first "]" after it, without the
\* whitespace before that "]".
Inner(s, i) == TrimR(SubSeq(s, i + 1, CloseOf(s, i) - 1))

\* r'\[\s*([^\]]+?)\s*,\s*\]' matches at i.
MatchAt(s, i) ==
    /\ s[i] = "["
    /\ CloseOf(s, i) > 0
    /\ Len(Inner(s, i)) >= 2
    /\ Inner(s, i)[Len(Inner(s, i))] = ","

\* Group 1 of the match at i: what precedes the last comma, stripped; one
\* whitespace character when that is all there is.
Group1(s, i) ==
    LET x == SubSeq(Inner(s, i), 1, Len(Inner(s, i)) - 1)
    IN  IF StripText(x) # <<>> THEN StripText(x) ELSE <<x[Len(x)]>>

RECURSIVE SubFrom(_, _)
SubFrom(s, i) ==
    IF i > Len(s) THEN <<>>
    ELSE IF MatchAt(s, i)
         THEN <<"[">> \o Group1(s, i) \o <<"]">> \o SubFrom(s, CloseOf(s, i) + 1)
         ELSE <<s[i]>> \o SubFrom(s, i + 1)

\* re.sub(r'\[\s*([^\]]+?)\s*,\s*\]', r'[\1]', s)
CollapseLists(s) == SubFrom(s, 1)

\* ----------------------------------------------------------- ZolaFront.to_toml
\* The data dict of to_toml.
TomlData(zf) ==
    LET base == [ title |-> zf.title,
                  date |-> IF Truthy(zf.date) THEN Str(isoformat(zf.date))
                           ELSE None,
                  description |-> zf.description ]
        withTax == IF Truthy(Map(zf.taxonomies))
                   THEN DictSet(base, "taxonomies", zf.taxonomies) ELSE base
    IN  IF Truthy(Map(zf.extra))
        THEN DictSet(withTax, "extra", zf.extra) ELSE withTax

to_toml(zf) == CollapseLists(StripText(dumps(TomlData(zf)))) \o <<NL>>

\* ------------------------------------------------------------ ZolaDoc.to_string
to_string(zf, content) ==
    <<"+++", NL>> \o to_toml(zf) \o <<"+++", NL, NL>> \o content

\* ------------------------------------------------------------------- paths
\* os.path.join(a, b) for a relative b.
PathJoin(a, b) ==
    IF a # <<>> /\ a[Len(a)] = "/" THEN a \o b ELSE a \o <<"/">> \o b

RECURSIVE BaseName(_)
\* Path(p).name: what follows the last separator.
BaseName(p) ==
    IF \E i \in 1..Len(p) : p[i] = "/" THEN BaseName(Tail(p)) ELSE p

\* filename.endswith(('.md'))
EndsWithMd(name) == name # <<>> /\ name[Len(name)] = ".md"

\* --------------------------------------------------------------- ParserState
UNKNOWN == 0
FRONT_MATTER == 1
CONTENT == 2

\* line.strip(), for the lines of the vocabulary that start or end with
\* whitespace or hold a run of dashes; every other line holds no dash run and
\* its stripped text is only ever compared with "---".
strip(line) ==
    CASE line \in {"---\n", " --- \n", "---"} -> "---"
      [] line = "----\n" -> "----"
      [] line = "hello\n" -> "hello"
      [] line = "world\n" -> "world"
      [] line = "\n" -> ""
      [] OTHER -> line

\* ''.join(lines): a line is one atom, so the text is the lines in order.
JoinLines(lines) == lines

\* -------------------------------------------------------------------- state
VARIABLES
    inKind,     \* what args.inpath is: "file", "dir" or "none"
    entries,    \* the files under inpath in os.walk order (the one file, for
                \* a file inpath): [root, name, lines]
    outpath,    \* args.outpath
    outIsDir,   \* os.path.isdir(args.outpath)
    fs,         \* the files at the output location: path -> text
    pc,         \* "main", "walk", "read", "done", "raised"
    idx,        \* the entry being converted, or the last one walked
    ln,         \* the next line Parser.read takes from the file
    state,      \* Parser.state
    raw_front,  \* Parser.raw_front
    content,    \* Parser.content
    doc,        \* the objects of the last conversion that reached the writer
    err,        \* the exception that ended the run, "" for none
    stderr,     \* the lines printed to sys.stderr
    log         \* one record per file convert_file returned from

vars == << inKind, entries, outpath, outIsDir, fs, pc, idx, ln, state,
           raw_front, content, doc, err, stderr, log >>

input == << inKind, entries, outpath, outIsDir >>
parser == << ln, state, raw_front, content >>

NoDoc == [t |-> "nodoc"]

\* The path convert_file is called with for entry i.
InPath(i) == PathJoin(entries[i].root, entries[i].name)

CurLines == entries[idx].lines
AtEof == pc = "read" /\ ln > Len(CurLines)

\* ------------------------------------------------------------------- main
\* main: inpath is a file; convert_file(args.inpath, args.outpath) starts.
MainFile ==
    /\ pc = "main" /\ inKind = "file"
    /\ pc' = "read" /\ idx' = 1
    /\ ln' = 1 /\ state' = UNKNOWN /\ raw_front' = <<>> /\ content' = <<>>
    /\ UNCHANGED << input, fs, doc, err, stderr, log >>

\* main: inpath is a directory; os.walk starts.
MainDir ==
    /\ pc = "main" /\ inKind = "dir"
    /\ pc' = "walk" /\ idx' = 0
    /\ UNCHANGED << input, fs, parser, doc, err, stderr, log >>

\* main: inpath is neither.
MainNoInput ==
    /\ pc = "main" /\ inKind = "none"
    /\ stderr' = Append(stderr, "Error: No input file provided.")
    /\ pc' = "done"
    /\ UNCHANGED << input, fs, idx, parser, doc, err, log >>

\* The walk passes a file whose name does not end in .md.
WalkSkip ==
    /\ pc = "walk" /\ idx < Len(entries)
    /\ ~EndsWithMd(entries[idx + 1].name)
    /\ idx' = idx + 1
    /\ UNCHANGED << input, fs, pc, parser, doc, err, stderr, log >>

\* The walk reaches a .md file; convert_file opens it with a fresh Parser.
WalkConvert ==
    /\ pc = "walk" /\ idx < Len(entries)
    /\ EndsWithMd(entries[idx + 1].name)
    /\ idx' = idx + 1 /\ pc' = "read"
    /\ ln' = 1 /\ state' = UNKNOWN /\ raw_front' = <<>> /\ content' = <<>>
    /\ UNCHANGED << input, fs, doc, err, stderr, log >>

\* The walk is exhausted.
WalkEnd ==
    /\ pc = "walk" /\ idx = Len(entries)
    /\ pc' = "done"
    /\ UNCHANGED << input, fs, idx, parser, doc, err, stderr, log >>

\* -------------------------------------------------------------- Parser.read
IsDelimiter(line) == strip(line) = "---"

\* UNKNOWN and the line is the delimiter.
ReadOpen ==
    /\ pc = "read" /\ ln <= Len(CurLines)
    /\ state = UNKNOWN /\ IsDelimiter(CurLines[ln])
    /\ state' = FRONT_MATTER /\ ln' = ln + 1
    /\ UNCHANGED << input, fs, pc, idx, raw_front, content, doc, err, stderr, log >>

\* FRONT_MATTER and the line is the delimiter.
ReadClose ==
    /\ pc = "read" /\ ln <= Len(CurLines)
    /\ state = FRONT_MATTER /\ IsDelimiter(CurLines[ln])
    /\ state' = CONTENT /\ ln' = ln + 1
    /\ UNCHANGED << input, fs, pc, idx, raw_front, content, doc, err, stderr, log >>

\* FRONT_MATTER, any other line.
ReadFront ==
    /\ pc = "read" /\ ln <= Len(CurLines)
    /\ state = FRONT_MATTER /\ ~IsDelimiter(CurLines[ln])
    /\ raw_front' = Append(raw_front, CurLines[ln]) /\ ln' = ln + 1
    /\ UNCHANGED << input, fs, pc, idx, state, content, doc, err, stderr, log >>

\* CONTENT, every line.
ReadContent ==
    /\ pc = "read" /\ ln <= Len(CurLines)
    /\ state = CONTENT
    /\ content' = Append(content, CurLines[ln]) /\ ln' = ln + 1
    /\ UNCHANGED << input, fs, pc, idx, state, raw_front, doc, err, stderr, log >>

\* UNKNOWN, any other line: no branch takes it.
ReadIgnore ==
    /\ pc = "read" /\ ln <= Len(CurLines)
    /\ state = UNKNOWN /\ ~IsDelimiter(CurLines[ln])
    /\ ln' = ln + 1
    /\ UNCHANGED << input, fs, pc, idx, state, raw_front, content, doc, err, stderr, log >>

\* ------------------------------------------------- convert_file, after the scan
\* self.front of the Parser at the end of read.
Front == safe_load(raw_front)

\* The JekyllDoc's front matter: JekyllFront(**front), then extract_date.
Jekyll == extract_date(JekyllFront(Front.m), InPath(idx))

\* A variant of Dest that mirrors the input path under the output directory.
DestMirrored ==
    IF outIsDir THEN PathJoin(outpath, InPath(idx)) ELSE outpath

\* The path convert_file writes.
Dest ==
    IF outIsDir THEN PathJoin(outpath, BaseName(InPath(idx))) ELSE outpath

\* A variant of WriteFile that leaves an existing file as it is.
WriteFileKeepExisting(files, path, text) ==
    IF path \in DOMAIN files THEN files
    ELSE [p \in DOMAIN files \cup {path} |-> IF p = path THEN text ELSE files[p]]

\* open(path, 'w').write(text)
WriteFile(files, path, text) ==
    [p \in DOMAIN files \cup {path} |-> IF p = path THEN text ELSE files[p]]

\* convert_file returns to main: the file run is over, the walk goes on.
Returned == IF inKind = "file" THEN "done" ELSE "walk"

\* An exception leaves convert_file and main: the run is over.
Raise(e) ==
    /\ pc' = "raised" /\ err' = e
    /\ UNCHANGED << input, fs, idx, parser, doc, stderr, log >>

\* yaml.safe_load raises at the end of read.
LoadRaises ==
    /\ AtEof /\ safe_load_raises(raw_front)
    /\ Raise("YAMLError")

\* into_jekyll returns None: the diagnostic, and no file.
NoDocument ==
    /\ AtEof /\ ~safe_load_raises(raw_front) /\ ~Truthy(Front)
    /\ stderr' = Append(stderr, "Error: Could not parse the Jekyll document.")
    /\ log' = Append(log, [i |-> idx, res |-> "skipped", dest |-> <<>>])
    /\ pc' = Returned
    /\ UNCHANGED << input, fs, idx, parser, doc, err >>

\* JekyllFront(**front) raises.
FrontRaises ==
    /\ AtEof /\ ~safe_load_raises(raw_front) /\ Truthy(Front)
    /\ JekyllFrontRaises(Front) # ""
    /\ Raise(JekyllFrontRaises(Front))

\* to_zola_front raises on the date.
DateRaises ==
    /\ AtEof /\ ~safe_load_raises(raw_front) /\ Truthy(Front)
    /\ JekyllFrontRaises(Front) = ""
    /\ to_zola_front_raises(Jekyll) # ""
    /\ Raise(to_zola_front_raises(Jekyll))

\* The document is built and written.
WriteOutput ==
    /\ AtEof /\ ~safe_load_raises(raw_front) /\ Truthy(Front)
    /\ JekyllFrontRaises(Front) = ""
    /\ to_zola_front_raises(Jekyll) = ""
    /\ doc' = [t |-> "doc", front |-> Front.m, jekyll |-> Jekyll,
               zola |-> to_zola_front(Jekyll)]
    /\ fs' = WriteFile(fs, Dest,
                to_string(to_zola_front(Jekyll), JoinLines(content)))
    /\ log' = Append(log, [i |-> idx, res |-> "written", dest |-> Dest])
    /\ pc' = Returned
    /\ UNCHANGED << input, idx, parser, err, stderr >>

Next ==
    \/ MainFile \/ MainDir \/ MainNoInput
    \/ WalkSkip \/ WalkConvert \/ WalkEnd
    \/ ReadOpen \/ ReadClose \/ ReadFront \/ ReadContent \/ ReadIgnore
    \/ LoadRaises \/ NoDocument \/ FrontRaises \/ DateRaises \/ WriteOutput

\* ------------------------------------------------------------------- inputs
Date20230501 == <<"2", "0", "2", "3", "-", "0", "5", "-", "0", "1">>
Date20210203 == <<"2", "0", "2", "1", "-", "0", "2", "-", "0", "3">>
Date20191231 == <<"2", "0", "1", "9", "-", "1", "2", "-", "3", "1">>

NameDated == Date20230501 \o <<"-", "post", ".md">>
NamePlain == <<"about", ".md">>
\* 2020-1-01-2021-02-03-2023-05-01.md: the leftmost match is the second run.
NameTwoDates ==
    <<"2", "0", "2", "0", "-", "1", "-", "0", "1", "-">> \o Date20210203
    \o <<"-">> \o Date20230501 \o <<".md">>
\* 12023-05-011.md: the match stands inside a longer run of digits.
NameEmbedded == <<"1">> \o Date20230501 \o <<"1", ".md">>
\* 2023-13-45-x.md: the pattern matches, the calendar has no such day.
NameBadDate ==
    <<"2", "0", "2", "3", "-", "1", "3", "-", "4", "5", "-", "x", ".md">>
NameTxt == <<"notes", ".txt">>

RootPosts == <<"posts">>
RootSlash == <<"posts", "/">>
RootSub == <<"posts", "/", "sub">>
RootDated == <<"posts", "/">> \o Date20191231

File(root, name, lines) == [root |-> root, name |-> name, lines |-> lines]

\* A well-formed post: the metadata fenced by two delimiter lines, the body.
Post(meta, body) == <<"---\n">> \o meta \o <<"---\n">> \o body

SeqsUpTo(S, n) == UNION { [1..k -> S] : k \in 0..n }
Opt(line) == { <<>>, <<line>> }
OneOf(S) == { <<>> } \cup { <<l>> : l \in S }

TitleLines == { "title: a\n", "title: '[a,]'\n" }
DateLines == { "date: '2020-01-01'\n", "date: '2020-1-1'\n",
               "date: '2020-02-30'\n", "date: 2020-01-01\n", "date: 'soon'\n" }
AuthorLines == { "author: Alice\n", "author: [Alice]\n",
                 "author: [Alice, Bob]\n", "author: []\n", "author: ''\n" }
TagLines == { "tags: [solo]\n", "tags: [a, b]\n", "tags: []\n",
              "tags: ['[a,]']\n", "tags: ['a]']\n" }

\* The lines of the reader sweep: both spellings of the delimiter, two
\* metadata entries, prose.
ReaderLines == { "---\n", " --- \n", "title: a\n", "layout: post\n", "hello\n" }

\* Every file of at most MaxLines lines over ReaderLines.
ReaderFiles ==
    { File(RootPosts, NameDated, ls) : ls \in SeqsUpTo(ReaderLines, MaxLines) }

\* Posts that vary title, subtitle, author and tags.
TaxonomyFiles ==
    { File(RootPosts, NamePlain,
           Post(<<t, "layout: post\n">> \o s \o a \o g, <<"hello\n">>)) :
        t \in TitleLines, s \in Opt("subtitle: s\n"),
        a \in OneOf(AuthorLines), g \in OneOf(TagLines) }

\* Posts that vary the keys that go to extra.
ExtraFiles ==
    { File(RootSlash, NamePlain,
           Post(<<"title: a\n">> \o l \o h \o c \o s \o g, <<"hello\n">>)) :
        l \in Opt("layout: post\n"), h \in Opt("header-img: img.png\n"),
        c \in Opt("cover: old.png\n"), s \in Opt("series: intro\n"),
        g \in Opt("tags: [solo]\n") }

\* Posts that vary the front-matter date and the path.
DateFiles ==
    { File(r, n, Post(<<"title: a\n", "layout: post\n">> \o d,
                      <<"hello\n", "---\n", "world\n">>)) :
        r \in {RootPosts, RootDated},
        n \in {NameDated, NamePlain, NameTwoDates, NameEmbedded, NameBadDate},
        d \in OneOf(DateLines) }

\* Other shapes: a duplicate key, text before the opening delimiter, a blank
\* metadata block, a delimiter without newline at the end of the file.
OtherFiles ==
    { File(RootPosts, NamePlain,
           <<"hello\n">> \o Post(<<"title: a\n", "title: '[a,]'\n",
                                   "layout: post\n">>, <<"world\n">>)),
      File(RootPosts, NamePlain, Post(<<"\n">>, <<"hello\n">>)),
      File(RootPosts, NameTxt,
           <<"---\n", "title: a\n", "layout: post\n", "---">>) }

\* The kinds of file a directory run is made of.
WalkFiles ==
    { File(RootPosts, NameDated,
           Post(<<"title: a\n", "layout: post\n", "tags: [solo]\n">>,
                <<"hello\n">>)),
      File(RootSub, NameDated,
           Post(<<"title: a\n", "layout: post\n", "author: Alice\n">>,
                <<"world\n">>)),
      File(RootPosts, NamePlain,
           Post(<<"title: a\n", "layout: post\n">>, <<"hello\n", "world\n">>)),
      File(RootPosts, <<"empty", ".md">>, Post(<<>>, <<"hello\n">>)),
      File(RootPosts, <<"broken", ".md">>,
           Post(<<"title: a\n", "bad: [\n">>, <<"hello\n">>)),
      File(RootPosts, <<"untitled", ".md">>,
           Post(<<"layout: post\n">>, <<"hello\n">>)),
      File(RootPosts, <<"nolayout", ".md">>,
           Post(<<"title: a\n">>, <<"hello\n">>)),
      File(RootPosts, NameBadDate,
           Post(<<"title: a\n", "layout: post\n">>, <<"hello\n">>)),
      File(RootPosts, NameTxt, <<"hello\n">>) }

OutDirPath == <<"out">>
OutFilePath == <<"result", ".md">>
OldText == <<"old", NL>>

\* The output location before the run: a directory that already holds a file
\* under the name of a post and one unrelated file, or a path that is no
\* directory beside the unrelated file.
OutDirFs ==
    [ p \in { PathJoin(OutDirPath, NameDated), PathJoin(OutDirPath, <<"keep", ".md">>) }
        |-> OldText ]
OutFileFs == [ p \in { PathJoin(OutDirPath, <<"keep", ".md">>) } |-> OldText ]

\* os.walk lists a file once, and the files of a directory before those of
\* its subdirectories.
WalkOrder(es) ==
    \A i, j \in 1..Len(es) :
        i < j => /\ es[i] # es[j]
                 /\ ~(es[i].root = RootSub /\ es[j].root = RootPosts)

World(kind, es, isDir) ==
    [ inKind |-> kind, entries |-> es,
      outpath |-> IF isDir THEN OutDirPath ELSE OutFilePath,
      outIsDir |-> isDir,
      fs |-> IF isDir THEN OutDirFs ELSE OutFileFs ]

\* The runs the model checks.
Worlds ==
    { World("dir", <<f>>, TRUE) : f \in ReaderFiles }
    \cup { World(k, <<f>>, d) :
            k \in {"file", "dir"}, d \in BOOLEAN,
            f \in TaxonomyFiles \cup ExtraFiles \cup DateFiles \cup OtherFiles }
    \cup { World("dir", es, d) :
            d \in BOOLEAN,
            es \in { q \in SeqsUpTo(WalkFiles, MaxFiles) : WalkOrder(q) } }
    \cup { World("none", <<>>, TRUE) }

Init ==
    /\ \E w \in Worlds :
        /\ inKind = w.inKind /\ entries = w.entries
        /\ outpath = w.outpath /\ outIsDir = w.outIsDir /\ fs = w.fs
    /\ pc = "main" /\ idx = 0
    /\ ln = 1 /\ state = UNKNOWN /\ raw_front = <<>> /\ content = <<>>
    /\ doc = NoDoc /\ err = "" /\ stderr = <<>> /\ log = <<>>

Spec == Init /\ [][Next]_vars

\* ======================================================================
\* The vocabulary of the claims: what a file holds and what an output says,
\* read off the texts themselves.
\* ======================================================================
Last(s) == s[Len(s)]

\* The lines of the vocabulary that equal --- once trimmed.
DelimiterLines == { "---\n", " --- \n", "---" }

\* The first delimiter line at or after position from, 0 for none.
DelimiterFrom(lines, from) ==
    IF \E i \in from..Len(lines) : lines[i] \in DelimiterLines
    THEN CHOOSE i \in from..Len(lines) :
            /\ lines[i] \in DelimiterLines
            /\ \A j \in from..(i - 1) : lines[j] \notin DelimiterLines
    ELSE 0

OpeningLine(lines) == DelimiterFrom(lines, 1)
ClosingLine(lines) ==
    IF OpeningLine(lines) = 0 THEN 0
    ELSE DelimiterFrom(lines, OpeningLine(lines) + 1)

\* The lines strictly between the first two delimiter lines; every line
\* after the first delimiter when there is no second.
MetaOf(lines) ==
    IF OpeningLine(lines) = 0 THEN <<>>
    ELSE SubSeq(lines, OpeningLine(lines) + 1,
                IF ClosingLine(lines) = 0 THEN Len(lines)
                ELSE ClosingLine(lines) - 1)

\* The lines that follow the second delimiter line.
BodyOf(lines) ==
    IF ClosingLine(lines) = 0 THEN <<>>
    ELSE SubSeq(lines, ClosingLine(lines) + 1, Len(lines))

\* The decoded metadata of a file whose metadata block parses to a mapping.
MetaMapping(lines) == LoadMapping(MetaOf(lines), EmptyDict)

\* The position of `key = ` at the start of a line of text, 0 for none.
KeyLine(text, key) ==
    IF \E i \in 2..(Len(text) - 3) :
            text[i] = key /\ text[i - 1] = NL /\ text[i + 1] = SP /\ text[i + 2] = "="
    THEN CHOOSE i \in 2..(Len(text) - 3) :
            /\ text[i] = key /\ text[i - 1] = NL /\ text[i + 1] = SP /\ text[i + 2] = "="
            /\ \A j \in 2..(i - 1) :
                ~(text[j] = key /\ text[j - 1] = NL /\ text[j + 1] = SP /\ text[j + 2] = "=")
    ELSE 0

\* The string between the quote at position i and the next quote.
QuotedAt(text, i) ==
    LET j == CHOOSE j \in (i + 1)..Len(text) :
                text[j] = Q /\ \A k \in (i + 1)..(j - 1) : text[k] # Q
    IN  SubSeq(text, i + 1, j - 1)

\* The string value the text gives key; <<>> when the text has no such key.
OutString(text, key) ==
    IF KeyLine(text, key) = 0 THEN <<>>
    ELSE QuotedAt(text, KeyLine(text, key) + 4)

\* The closing +++ line of an output document, 0 for none.
ClosingFence(text) ==
    IF \E j \in 3..Len(text) : text[j] = "+++" /\ text[j - 1] = NL
    THEN CHOOSE j \in 3..Len(text) :
            /\ text[j] = "+++" /\ text[j - 1] = NL
            /\ \A k \in 3..(j - 1) : ~(text[k] = "+++" /\ text[k - 1] = NL)
    ELSE 0

\* The metadata block of an output document, between the +++ lines.
OutFront(text) == SubSeq(text, 2, ClosingFence(text) - 1)

\* An output document is the +++ line, the metadata, the +++ line and a
\* blank line, then its content.
WellFenced(text) ==
    /\ Len(text) >= 2 /\ text[1] = "+++" /\ text[2] = NL
    /\ ClosingFence(text) > 0
    /\ ClosingFence(text) + 2 <= Len(text)
    /\ text[ClosingFence(text) + 1] = NL
    /\ text[ClosingFence(text) + 2] = NL

\* Everything after the closing +++ line and the blank separator line.
OutContent(text) == SubSeq(text, ClosingFence(text) + 3, Len(text))

RECURSIVE QuotedStrings(_)
\* The quoted strings of a text, in order.
QuotedStrings(text) ==
    IF \A i \in 1..Len(text) : text[i] # Q THEN <<>>
    ELSE LET i == CHOOSE i \in 1..Len(text) :
                    text[i] = Q /\ \A k \in 1..(i - 1) : text[k] # Q
             v == QuotedAt(text, i)
         IN  <<v>> \o QuotedStrings(SubSeq(text, i + Len(v) + 2, Len(text)))

\* The step before this state wrote the output of entry idx.
JustWrote ==
    /\ pc \in {"walk", "done"} /\ log # <<>>
    /\ Last(log).res = "written" /\ Last(log).i = idx

\* The output document just written, and the file it was made from.
Written == fs[Last(log).dest]
Source == entries[idx].lines

\* ---------------------------------------------------------------------- C10
\* The reader, on the lines it has taken so far: the state counts the
\* delimiter lines seen, up to two; raw_front and content are the lines
\* between and after them.
ReaderTracksDelimiters ==
    pc = "read" =>
        LET seen == SubSeq(CurLines, 1, ln - 1)
        IN  /\ state = (IF OpeningLine(seen) = 0 THEN UNKNOWN
                        ELSE IF ClosingLine(seen) = 0 THEN FRONT_MATTER
                        ELSE CONTENT)
            /\ raw_front = MetaOf(seen)
            /\ content = BodyOf(seen)

\* The state never moves backwards and moves one step at a time, while one
\* file is read.
ReaderStateMonotone ==
    [][pc = "read" /\ pc' = "read" => state' \in {state, state + 1}]_vars

\* C10: while read scans a file the state moves only UNKNOWN -> FRONT_MATTER
\* -> CONTENT, on the first and on the second delimiter line; raw_front is the
\* lines strictly between the two, content the lines after; and a file that
\* never reaches CONTENT ends with empty content and every line after the
\* first delimiter in raw_front, without read raising.
C10_ReaderNeverRaises ==
    /\ ReaderTracksDelimiters
    /\ (pc = "raised" /\ state # CONTENT) => err # "YAMLError"

\* ----------------------------------------------------------------------- C1
\* The content of the output just written is the lines after the second
\* delimiter line of its source, and the output is fenced as a document.
ContentPreserved ==
    JustWrote => WellFenced(Written) /\ OutContent(Written) = BodyOf(Source)

\* C1: a document with a title that converts without error keeps its title
\* unchanged in the output, and the output content is exactly the input
\* lines that follow the second --- line.
C1_TitleAndContentPreserved ==
    JustWrote =>
        /\ OutString(Written, "title") = MetaMapping(Source)["title"].v[1]
        /\ WellFenced(Written)
        /\ OutContent(Written) = BodyOf(Source)

\* ----------------------------------------------------------------------- C3
\* The metadata block of entry i is empty or unparsable.
EmptyOrUnparsable(i) ==
    \/ safe_load_raises(MetaOf(entries[i].lines))
    \/ ~HasLine(MetaOf(entries[i].lines), EntryLines \cup ScalarLines)

\* Entry i was skipped: a log record, the diagnostic, no file.
Skipped(i) == \E k \in 1..Len(log) : log[k].i = i /\ log[k].res = "skipped"

\* C3: in a directory run a file whose metadata block is empty or unparsable
\* yields no document, is skipped with a diagnostic and without output, and
\* the run goes on to the remaining files.
C3_UnparsableIsSkipped ==
    inKind = "dir" =>
        /\ pc = "raised" => ~EmptyOrUnparsable(idx)
        /\ \A i \in 1..Len(entries) :
            (EndsWithMd(entries[i].name) /\ EmptyOrUnparsable(i)
                /\ (i < idx \/ (i = idx /\ pc \in {"walk", "done"})))
            => Skipped(i)
        /\ Len(stderr) = Cardinality({ k \in 1..Len(log) : log[k].res = "skipped" })

\* ----------------------------------------------------------------------- C9
\* key's line in the metadata block is the one-line list of the one element.
OnOneLine(front, key, element) ==
    /\ KeyLine(front, key) > 0
    /\ LET line == <<key, SP, "=", SP, "[", Q>> \o element \o <<Q, "]", NL>>
           k == KeyLine(front, key)
       IN  SubSeq(front \o <<NL>>, k, k + Len(line) - 1) = line

\* C9: in the encoded metadata block a list of exactly one element stands on
\* one line in bracketed form, and the normalization pass changes the layout
\* of list literals only: every string value reads as it did before the pass.
C9_NormalizationIsCosmetic ==
    JustWrote =>
        LET front == OutFront(Written)
            tax == doc.zola.taxonomies
        IN  /\ \A key \in DOMAIN tax :
                (tax[key].t = "list" /\ Len(tax[key].v) = 1)
                    => OnOneLine(front, key, tax[key].v[1])
            /\ QuotedStrings(front)
                = QuotedStrings(dumps(TomlData(doc.zola)))

\* ----------------------------------------------------------------------- C7
\* A source value that is absent, None, "" or [].
IsEmpty(x) ==
    \/ x.t = "none"
    \/ x.t = "str" /\ x.v = << <<>> >>
    \/ x.t = "list" /\ x.v = <<>>

\* The value of key in the decoded metadata, None when the key is absent.
SourceValue(src, key) == IF key \in DOMAIN src THEN src[key] ELSE None

\* A scalar A as [A], a list as it is.
AsList(x) == IF x.t = "list" THEN x ELSE [t |-> "list", v |-> x.v, d |-> <<>>]

\* C7: in the front matter to_zola_front builds, taxonomies.author is the
\* source author as a list while the top-level author is the source author as
\* typed; taxonomies.tags is the source tags; a taxonomy whose source value is
\* empty or absent has no key, and no key holds an empty list.
C7_TaxonomiesFromSource ==
    doc.t = "doc" =>
        LET author == SourceValue(doc.front, "author")
            tags == SourceValue(doc.front, "tags")
            tax == doc.zola.taxonomies
        IN  /\ doc.zola.author = author
            /\ DOMAIN tax \subseteq {"tags", "author"}
            /\ "author" \in DOMAIN tax <=> ~IsEmpty(author)
            /\ "author" \in DOMAIN tax => tax["author"] = AsList(author)
            /\ "tags" \in DOMAIN tax <=> ~IsEmpty(tags)
            /\ "tags" \in DOMAIN tax => tax["tags"] = tags
            /\ \A k \in DOMAIN tax : ~IsEmpty(tax[k])

\* A scalar author went to taxonomies as a list, in a document without tags.
C7_Witness ==
    /\ doc.t = "doc"
    /\ SourceValue(doc.front, "author") = Str(<<"Alice">>)
    /\ SourceValue(doc.front, "tags") = List(<<>>)
    /\ DOMAIN doc.zola.taxonomies = {"author"}

\* ----------------------------------------------------------------------- C8
\* The source keys that pass through to extra under their own name.
PassThrough(src) == DOMAIN src \ (Positional \cup {"layout", "header-img"})

\* The keys of the destination extra: the pass-through keys, and cover when
\* the source has header-img; never layout, never header-img.
ExtraKeysAreRemainder ==
    doc.t = "doc" =>
        /\ DOMAIN doc.zola.extra
            = PassThrough(doc.front)
              \cup (IF "header-img" \in DOMAIN doc.front THEN {"cover"} ELSE {})
        /\ "header-img" \in DOMAIN doc.front
            => doc.zola.extra["cover"] = doc.front["header-img"]

\* C8 as stated: extra holds exactly the pass-through keys, each with its
\* source value, header-img renamed to cover.
C8_Original ==
    /\ ExtraKeysAreRemainder
    /\ doc.t = "doc" =>
        \A k \in PassThrough(doc.front) : doc.zola.extra[k] = doc.front[k]

\* C8 amended: each pass-through key has its source value, except cover in a
\* source that also has header-img: there cover holds the header-img value.
C8_ExtraIsRemainder ==
    /\ ExtraKeysAreRemainder
    /\ doc.t = "doc" =>
        \A k \in PassThrough(doc.front) :
            (k = "cover" /\ "header-img" \in DOMAIN doc.front)
            \/ doc.zola.extra[k] = doc.front[k]

\* A source with header-img, cover and another key was converted.
C8_Witness ==
    /\ doc.t = "doc"
    /\ {"header-img", "cover", "series", "layout"} \subseteq DOMAIN doc.front
    /\ DOMAIN doc.zola.extra = {"cover", "series"}

\* ----------------------------------------------------------------------- C2
\* s is 4 digits, 2 digits and 2 digits, hyphen-separated.
LooksLikeDate(s) ==
    /\ Len(s) = 10
    /\ \A k \in 1..10 : IF k \in {5, 8} THEN s[k] = "-" ELSE s[k] \in Digits

RECURSIVE LeftmostDate(_)
\* The leftmost substring of path of that form, <<>> for none.
LeftmostDate(path) ==
    IF Len(path) < 10 THEN <<>>
    ELSE IF LooksLikeDate(SubSeq(path, 1, 10)) THEN SubSeq(path, 1, 10)
    ELSE LeftmostDate(Tail(path))

\* The front-matter date of a file, None when it has none.
FrontDate(lines) == SourceValue(MetaMapping(lines), "date")

\* The second hyphen of a year-month-day string.
SecondHyphen(s) == IF Len(s) >= 7 /\ s[7] = "-" THEN 7 ELSE 8

\* A month or day field in two digits.
TwoDigits(f) ==
    IF Len(f) = 1 THEN <<"0">> \o f
    ELSE IF f[1] = SP THEN <<"0", f[2]>> ELSE f

\* A year-month-day string with month and day in two digits.
ZeroPadded(s) ==
    SubSeq(s, 1, 5) \o TwoDigits(SubSeq(s, 6, SecondHyphen(s) - 1))
    \o <<"-">> \o TwoDigits(SubSeq(s, SecondHyphen(s) + 1, Len(s)))

ExpectedDest(i) ==
    IF outIsDir THEN outpath \o <<"/">> \o entries[i].name ELSE outpath

\* The conversion of entry i: its metadata mapped, its body unchanged.
ConvOf(i) ==
    to_string(
        to_zola_front(extract_date(JekyllFront(MetaMapping(entries[i].lines)),
                                   InPath(i))),
        BodyOf(entries[i].lines))

\* Entry i is a .md file whose metadata is a mapping.
HasMapping(i) ==
    /\ EndsWithMd(entries[i].name)
    /\ ~safe_load_raises(MetaOf(entries[i].lines))
    /\ HasLine(MetaOf(entries[i].lines), EntryLines)

\* The output location before the run.
InitialFs == IF outIsDir THEN OutDirFs ELSE OutFileFs

Put(files, path, text) ==
    [p \in DOMAIN files \cup {path} |-> IF p = path THEN text ELSE files[p]]

RECURSIVE FsAfter(_)
\* The output location once the first n entries were converted in order.
FsAfter(n) ==
    IF n = 0 THEN InitialFs
    ELSE IF HasMapping(n) THEN Put(FsAfter(n - 1), ExpectedDest(n), ConvOf(n))
    ELSE FsAfter(n - 1)

\* The days of month m of year y.
CalendarDays(y, m) ==
    IF m = 2 THEN (IF y % 4 = 0 /\ (y % 100 # 0 \/ y % 400 = 0) THEN 29 ELSE 28)
    ELSE IF m \in {4, 6, 9, 11} THEN 30 ELSE 31

AllDigits(f) == \A k \in 1..Len(f) : f[k] \in Digits

\* s is YYYY-MM-DD and names a day of the calendar.
StrictDate(s) ==
    /\ LooksLikeDate(s)
    /\ Number(SubSeq(s, 1, 4)) >= 1
    /\ Number(SubSeq(s, 6, 7)) \in 1..12
    /\ Number(SubSeq(s, 9, 10))
        \in 1..CalendarDays(Number(SubSeq(s, 1, 4)), Number(SubSeq(s, 6, 7)))

\* s is a four-digit year, a month and a day of one or two digits (the day
\* possibly space-padded), hyphen-separated, and names a day of the calendar.
LenientDate(s) ==
    /\ Len(s) \in 8..10
    /\ AllDigits(SubSeq(s, 1, 4)) /\ s[5] = "-"
    /\ s[SecondHyphen(s)] = "-" /\ SecondHyphen(s) < Len(s)
    /\ LET m == SubSeq(s, 6, SecondHyphen(s) - 1)
           d == TwoDigits(SubSeq(s, SecondHyphen(s) + 1, Len(s)))
       IN  /\ Len(m) \in 1..2 /\ AllDigits(m)
           /\ Len(d) = 2 /\ AllDigits(d)
           /\ Number(SubSeq(s, 1, 4)) >= 1
           /\ Number(m) \in 1..12
           /\ Number(d) \in 1..CalendarDays(Number(SubSeq(s, 1, 4)), Number(m))

\* The date entry i ends up with: the one of its path, else the front matter's.
FinalDate(i) ==
    IF LeftmostDate(InPath(i)) # <<>> THEN Str(LeftmostDate(InPath(i)))
    ELSE FrontDate(entries[i].lines)

\* Entry i has a mapping that lacks title or layout, or ends up with a date
\* string the strict form (strict) or the lenient form rejects.
Fatal(i, strict) ==
    /\ HasMapping(i)
    /\ \/ "title" \notin DOMAIN MetaMapping(entries[i].lines)
       \/ "layout" \notin DOMAIN MetaMapping(entries[i].lines)
       \/ /\ FinalDate(i).t = "str" /\ FinalDate(i).v[1] # <<>>
          /\ IF strict THEN ~StrictDate(FinalDate(i).v[1])
             ELSE ~LenientDate(FinalDate(i).v[1])

\* The run stops at a fatal entry: the walk never passes it, it leaves no log
\* record, the run ends raised there, and the output location is what the
\* entries before it made of it.
StopsAtFatal(strict) ==
    inKind = "dir" =>
        \A i \in 1..Len(entries) :
            Fatal(i, strict) =>
                /\ idx <= i
                /\ \A k \in 1..Len(log) : log[k].i < i
                /\ idx = i => pc \in {"read", "raised"}
                /\ (idx = i /\ pc = "raised") =>
                    /\ err \in {"TypeError", "KeyError", "ValueError"}
                    /\ fs = FsAfter(i - 1)

C5_WritesOnlyDestination ==
    [][ IF log' # log /\ Last(log').res = "written"
        THEN /\ Last(log').dest = ExpectedDest(idx)
             /\ DOMAIN fs' = DOMAIN fs \cup {ExpectedDest(idx)}
             /\ fs'[ExpectedDest(idx)] = ConvOf(idx)
             /\ \A p \in DOMAIN fs \ {ExpectedDest(idx)} : fs'[p] = fs[p]
        ELSE fs' = fs ]_vars

\* A post from a subdirectory replaced the file the output directory held
\* under its name.
C5_Witness ==
    /\ JustWrote /\ outIsDir
    /\ entries[idx].root = RootSub
    /\ Last(log).dest = PathJoin(OutDirPath, NameDated)
    /\ Last(log).dest \in DOMAIN InitialFs
    /\ fs[Last(log).dest] # OldText

\* The .md entries of the run, and the run converted every one of them.
MdEntries == { i \in 1..Len(entries) : EndsWithMd(entries[i].name) }
AllConverted ==
    /\ pc = "done" /\ inKind = "dir"
    /\ \A i \in MdEntries :
        \E k \in 1..Len(log) : log[k].i = i /\ log[k].res = "written"

\* The files the run wrote.
OutputFiles == { log[k].dest : k \in { j \in 1..Len(log) : log[j].res = "written" } }

\* C6 as stated: after a run that converted every .md file each input has an
\* output of its own that holds its conversion, as many outputs as inputs.
C6_Original ==
    AllConverted =>
        /\ Cardinality(OutputFiles) = Cardinality(MdEntries)
        /\ \A i \in MdEntries : fs[ExpectedDest(i)] = ConvOf(i)

\* The last .md entry in walk order that is written to dest.
LastFor(dest) ==
    CHOOSE i \in MdEntries :
        /\ ExpectedDest(i) = dest
        /\ \A j \in MdEntries : ExpectedDest(j) = dest => j <= i

\* C6 amended: there is one output per distinct destination, that is per
\* distinct base name under an output directory and one in all otherwise,
\* and it holds the conversion of the last input in walk order written there.
C6_OneOutputPerBaseName ==
    AllConverted =>
        /\ OutputFiles = { ExpectedDest(i) : i \in MdEntries }
        /\ Cardinality(OutputFiles)
            = IF outIsDir
              THEN Cardinality({ entries[i].name : i \in MdEntries })
              ELSE IF MdEntries = {} THEN 0 ELSE 1
        /\ \A d \in OutputFiles : fs[d] = ConvOf(LastFor(d))

\* A run converted two posts of one base name from two directories into one
\* output file.
C6_Witness ==
    /\ AllConverted /\ outIsDir
    /\ Cardinality(MdEntries) = 2 /\ Cardinality(OutputFiles) = 1
    /\ entries[1].root # entries[2].root

====
